---- MODULE Spec2Model ----
(***************************************************************************)
(* Model of the media-upload gateway of src/index.js (lines 1-296, the     *)
(* consolidated variant): the multer upload validator, the Express route   *)
(* chain of POST /upload, the Supabase object store, and the account /     *)
(* token endpoints (/register, /login, /me, /logout) behind the auth gate. *)
(*                                                                         *)
(* JavaScript strings that the code takes apart (file names, content       *)
(* types, storage keys) are sequences of one-character strings, so that    *)
(* split, pop, toLowerCase, startsWith and RegExp.test are computed.       *)
(***************************************************************************)
EXTENDS Integers, Sequences, FiniteSets, TLC

VARIABLES
  store,    \* the "uploads" bucket: set of [name, buffer, contentType]
  cfg,      \* process environment: [baseUrl, production]
  last,     \* the last HTTP exchange of the upload endpoints
  batch,    \* the POST /upload-multiple request whose puts are in flight
  deleted,  \* history: ids a DELETE answered 200 for and no upload re-created
  del,      \* per in-flight DELETE /images/:id: where it is suspended
  users,    \* the "users" table: set of rows
  nextId,   \* the id sequence of the "users" table
  now,      \* wall clock, in whole seconds (JWT NumericDate resolution)
  ticks,    \* number of clock advances so far
  issued,   \* tokens handed out by /login
  pc,       \* per in-flight request: where its handler is suspended
  pending,  \* per in-flight request: the body a suspended /register holds
  resp,     \* per request slot: the last response sent on it
  loggedOut \* history: tokens for which POST /logout answered 200

uploadVars == <<store, cfg, last, batch, deleted, del>>
authVars == <<users, nextId, now, ticks, issued, pc, pending, resp, loggedOut>>
vars ==
  <<store, cfg, last, batch, deleted, del, users, nextId, now, ticks, issued, pc, pending, resp,
    loggedOut>>

(***************************************************************************)
(* String primitives                                                       *)
(***************************************************************************)
RECURSIVE split(_, _)
\* String.prototype.split with a one-character separator
split(s, sep) ==
  IF \A i \in 1..Len(s) : s[i] # sep
  THEN <<s>>
  ELSE LET i == CHOOSE k \in 1..Len(s) :
                  s[k] = sep /\ \A j \in 1..(k - 1) : s[j] # sep
       IN  <<SubSeq(s, 1, i - 1)>> \o split(SubSeq(s, i + 1, Len(s)), sep)

\* Array.prototype.pop: the last element
pop(a) == a[Len(a)]

lowerChar(c) ==
  CASE c = "P" -> "p" [] c = "N" -> "n" [] c = "G" -> "g"
    [] c = "J" -> "j" [] c = "A" -> "a" [] OTHER -> c

\* String.prototype.toLowerCase
toLowerCase(s) == [i \in 1..Len(s) |-> lowerChar(s[i])]

\* String.prototype.includes
includes(s, sub) ==
  \E i \in 0..(Len(s) - Len(sub)) : SubSeq(s, i + 1, i + Len(sub)) = sub

\* String.prototype.startsWith
startsWith(s, pre) == Len(s) >= Len(pre) /\ SubSeq(s, 1, Len(pre)) = pre

\* String.prototype.endsWith
endsWith(s, suf) ==
  Len(s) >= Len(suf) /\ SubSeq(s, Len(s) - Len(suf) + 1, Len(s)) = suf

(***************************************************************************)
(* Upload validator                                                        *)
(***************************************************************************)
jpg == <<"j", "p", "g">>
jpeg == <<"j", "p", "e", "g">>
png == <<"p", "n", "g">>
gif == <<"g", "i", "f">>
webp == <<"w", "e", "b", "p">>

\* the alternatives of /jpeg|jpg|png|gif|webp/
allowedWords == {jpeg, jpg, png, gif, webp}

\* allowed.test(s): an unanchored regular expression matches anywhere in s
allowedTest(s) == \E w \in allowedWords : includes(s, w)

\* fileFilter: TRUE for cb(null, true), FALSE for cb(new Error(...))
fileFilter(file) ==
  LET ext == allowedTest(toLowerCase(pop(split(file.originalname, "."))))
      mime == allowedTest(file.mimetype)
  IN  ext /\ mime

\* limits.fileSize of the multer instance
FileSizeLimit == 10 * 1024 * 1024

(***************************************************************************)
(* Errors and responses                                                    *)
(***************************************************************************)
NoErr == [kind |-> "none", code |-> "", message |-> ""]

\* new Error("Only image files are allowed"), raised by fileFilter
FilterError ==
  [kind |-> "Error", code |-> "", message |-> "Only image files are allowed"]

\* the MulterError raised when a file exceeds limits.fileSize
SizeError ==
  [kind |-> "MulterError", code |-> "LIMIT_FILE_SIZE", message |-> "File too large"]

\* the TypeError of reading .includes of undefined
TypeErr ==
  [kind |-> "TypeError", code |-> "",
   message |-> "Cannot read properties of undefined (reading 'includes')"]

\* the supabase storage error object
StorageErr == [kind |-> "StorageError", code |-> "", message |-> "storage error"]

\* the request object (http.IncomingMessage) seen through the fields an
\* error would have: it has neither .code nor .message
ReqAsErr == [kind |-> "IncomingMessage", code |-> "undefined", message |-> "undefined"]

NoFile == [originalname |-> <<>>, mimetype |-> <<>>, size |-> 0 - 1, buffer |-> "undefined"]
NoUrl == [base |-> "none", path |-> <<>>]
NoBody ==
  [id |-> <<>>, filename |-> <<>>, url |-> NoUrl, size |-> 0 - 1,
   mimetype |-> <<>>, bytes |-> "undefined", contentType |-> ""]

\* an outcome of a middleware or handler: either a response was sent
\* (t = "resp") or control was passed on (t = "next", with err or without)
Respond(status, error, body, st, puts, ran) ==
  [t |-> "resp", status |-> status, error |-> error, body |-> body,
   err |-> NoErr, file |-> NoFile, store |-> st, putCalls |-> puts,
   handlerRan |-> ran, via |-> "app"]

PassOn(err, file, st) ==
  [t |-> "next", status |-> 0, error |-> "", body |-> NoBody,
   err |-> err, file |-> file, store |-> st, putCalls |-> 0,
   handlerRan |-> FALSE, via |-> "app"]

(***************************************************************************)
(* Bounded inputs                                                          *)
(***************************************************************************)
MaxUuid == 2
Digit == <<"1", "2", "3", "4", "5">>
\* ids with a "." inside, as a dotted id scheme would give
UuidsDotted == {<<"u", ".", Digit[n]>> : n \in 1..MaxUuid}

\* values crypto.randomUUID() may return (never containing ".")
Uuids == {<<"u", Digit[n]>> : n \in 1..MaxUuid}

Names ==
  { <<"a", ".", "p", "n", "g">>,                 \* a.png
    <<"a", ".", "P", "N", "G">>,                 \* a.PNG
    <<"a", ".", "b", ".", "g", "i", "f">>,       \* a.b.gif
    <<"p", "n", "g">>,                           \* png (no dot)
    <<"a", ".", "p", "n", "g", "x">>,            \* a.pngx
    <<"a", ".", "t", "x", "t">> }                \* a.txt

ImagePng == <<"i", "m", "a", "g", "e", "/", "p", "n", "g">>
TextPlain == <<"t", "e", "x", "t", "/", "p", "l", "a", "i", "n">>
TextXPng == <<"t", "e", "x", "t", "/", "x", "-", "p", "n", "g">>
Mimes == {ImagePng, TextPlain, TextXPng}

Sizes == {FileSizeLimit, FileSizeLimit + 1}
Buffers == {"bytesA", "bytesB"}

Files ==
  [originalname : Names, mimetype : Mimes, size : Sizes, buffer : Buffers]

(***************************************************************************)
(* Object store (supabase.storage.from("uploads"))                         *)
(***************************************************************************)
exists(st, name) == \E o \in st : o.name = name

\* .upload(name, buffer, {contentType, upsert: true})
storagePutUpsert(st, name, buffer, contentType, backendOk) ==
  IF backendOk
  THEN [error |-> NoErr,
        store |-> {o \in st : o.name # name}
                    \cup {[name |-> name, buffer |-> buffer,
                           contentType |-> contentType]}]
  ELSE [error |-> StorageErr, store |-> st]

\* .upload(name, buffer, {contentType, upsert: false})
storagePut(st, name, buffer, contentType, backendOk) ==
  IF backendOk /\ ~exists(st, name)
  THEN [error |-> NoErr,
        store |-> st \cup {[name |-> name, buffer |-> buffer,
                            contentType |-> contentType]}]
  ELSE [error |-> StorageErr, store |-> st]

\* .download(name)
download(st, name) ==
  IF exists(st, name)
  THEN [error |-> NoErr, data |-> (CHOOSE o \in st : o.name = name).buffer]
  ELSE [error |-> StorageErr, data |-> "undefined"]

\* .getPublicUrl(name)
getPublicUrl(name) == [base |-> "public", path |-> name]

\* uploadToSupabase(file), with the uuid that crypto.randomUUID() returns
uploadToSupabase(file, st, uuid, backendOk) ==
  LET id == uuid
      ext == pop(split(file.originalname, "."))
      filename == id \o <<".">> \o ext
      put == storagePut(st, filename, file.buffer, file.mimetype, backendOk)
  IN  IF put.error # NoErr
      THEN [thrown |-> TRUE, result |-> NoBody, store |-> put.store]
      ELSE [thrown |-> FALSE,
            result |-> [id |-> id, filename |-> filename,
                        url |-> getPublicUrl(filename), size |-> file.size,
                        mimetype |-> file.mimetype, bytes |-> "undefined",
                        contentType |-> ""],
            store |-> put.store]

(***************************************************************************)
(* The route chain of POST /upload                                         *)
(***************************************************************************)
\* upload.single("image"): fileFilter runs on the part's header, the size
\* limit while its bytes are read; the file is attached to req otherwise
multerSingle(file, st) ==
  IF file = NoFile THEN PassOn(NoErr, NoFile, st)
  ELSE IF ~fileFilter(file) THEN PassOn(FilterError, NoFile, st)
  ELSE IF file.size > FileSizeLimit THEN PassOn(SizeError, NoFile, st)
  ELSE PassOn(NoErr, file, st)

\* err.message.includes("Only image files"), for the messages that occur
includesOnlyImageFiles(message) ==
  message \in {"Only image files are allowed",
               "Only image files are allowed (jpg, jpeg, png, gif, webp)"}

\* handleUploadError applied to its first argument
handleUploadError(err, file, st) ==
  IF err.kind = "MulterError" /\ err.code = "LIMIT_FILE_SIZE"
  THEN Respond(400, "File too large. Max 10MB.", NoBody, st, 0, FALSE)
  ELSE IF err.message = "undefined"
  THEN PassOn(TypeErr, file, st)               \* throws: Express catches it
  ELSE IF includesOnlyImageFiles(err.message)
  THEN Respond(400, err.message, NoBody, st, 0, FALSE)
  ELSE Respond(500, "Upload failed", NoBody, st, 0, FALSE)

\* the number of declared parameters of handleUploadError (its .length),
\* by which Express tells an error handler (4) from a middleware (< 4)
handleUploadErrorArity == 3

\* const fileUrl = BASE_URL ? `${BASE_URL}/file/${filename}` : result.url
fileUrl(baseUrl, result) ==
  IF baseUrl THEN [base |-> "BASE_URL/file", path |-> result.filename]
  ELSE result.url

\* the async (req, res) handler of POST /upload
uploadHandler(file, st, uuid, backendOk, baseUrl) ==
  IF file = NoFile
  THEN Respond(400, "No file uploaded", NoBody, st, 0, TRUE)
  ELSE LET up == uploadToSupabase(file, st, uuid, backendOk)
       IN  IF up.thrown
           THEN Respond(500, "Failed to upload image", NoBody, up.store, 1, TRUE)
           ELSE Respond(200, "",
                        [up.result EXCEPT !.url = fileUrl(baseUrl, up.result)],
                        up.store, 1, TRUE)

\* the layers of app.post("/upload", ...), each with its function's length
uploadRoute ==
  << [fn |-> "upload.single", arity |-> 3],
     [fn |-> "handleUploadError", arity |-> handleUploadErrorArity],
     [fn |-> "uploadHandler", arity |-> 2] >>

\* Express' default error handler: status 500 for an error without .status;
\* the body shows the error only outside production
finalhandler(err, st, production) ==
  [Respond(IF err = NoErr THEN 404 ELSE 500,
           IF err = NoErr THEN "Not Found"
           ELSE IF production THEN "Internal Server Error" ELSE err.message,
           NoBody, st, 0, FALSE) EXCEPT !.via = "finalhandler"]

(***************************************************************************)
(* The route chain of POST /upload-multiple                                *)
(***************************************************************************)
\* maxCount of upload.array("images", 10)
MaxCount == 10

\* the MulterError raised for a file beyond maxCount
UnexpectedFileError ==
  [kind |-> "MulterError", code |-> "LIMIT_UNEXPECTED_FILE",
   message |-> "Unexpected field"]

\* the error of the earlier fileFilter (src/index.js:334)
FilterErrorV1 ==
  [kind |-> "Error", code |-> "",
   message |-> "Only image files are allowed (jpg, jpeg, png, gif, webp)"]

\* what multer raises on the i-th part: the count is checked before
\* fileFilter runs, the size while the bytes are read
fileProblem(files, i, filterError) ==
  IF i > MaxCount THEN UnexpectedFileError
  ELSE IF ~fileFilter(files[i]) THEN filterError
  ELSE IF files[i].size > FileSizeLimit THEN SizeError
  ELSE NoErr

\* upload.array("images", 10): parts are taken in order and the first
\* error ends the parse; req.files is the array of accepted files
multerArrayWith(files, st, filterError) ==
  LET bad == {i \in 1..Len(files) : fileProblem(files, i, filterError) # NoErr}
      first == CHOOSE i \in bad : \A j \in bad : i <= j
  IN  IF bad = {} THEN PassOn(NoErr, files, st)
      ELSE PassOn(fileProblem(files, first, filterError), <<>>, st)

multerArray(files, st) == multerArrayWith(files, st, FilterError)

\* an upload.array that leaves out a part fileFilter turns down (as with
\* cb(null, false)) and goes on with the others
multerArraySkippingV1(files, st) ==
  LET isValid(f) == fileFilter(f) /\ f.size <= FileSizeLimit
  IN  IF Len(files) > MaxCount THEN PassOn(UnexpectedFileError, <<>>, st)
      ELSE PassOn(NoErr, SelectSeq(files, isValid), st)

\* upload.array of the earlier variant (src/index.js:429)
multerArrayV1(files, st) == multerArrayWith(files, st, FilterErrorV1)

\* handleUploadError of the earlier variant (src/index.js:376-390)
handleUploadErrorV1(err, file, st) ==
  IF err.kind = "MulterError" /\ err.code = "LIMIT_FILE_SIZE"
  THEN Respond(400, "File too large. Maximum size is 10MB.", NoBody, st, 0,
               FALSE)
  ELSE IF err.message = "undefined"
  THEN PassOn(TypeErr, file, st)
  ELSE IF includesOnlyImageFiles(err.message)
  THEN Respond(400, err.message, NoBody, st, 0, FALSE)
  ELSE Respond(500, "Upload failed", NoBody, st, 0, FALSE)

\* the number of declared parameters of the earlier handleUploadError
handleUploadErrorArityV1 == 4

\* the async (req, res) handler of POST /upload-multiple up to its await:
\* it answers 400 without files, and otherwise has called uploadToSupabase
\* for every file and waits for Promise.all (t = "await")
uploadMultipleHandler(files, st) ==
  IF Len(files) = 0
  THEN Respond(400, "No files uploaded", NoBody, st, 0, TRUE)
  ELSE [PassOn(NoErr, files, st) EXCEPT !.t = "await", !.handlerRan = TRUE]

\* the layers of app.post("/upload-multiple", ...)
uploadMultipleRoute ==
  << [fn |-> "upload.array", arity |-> 3],
     [fn |-> "handleUploadError", arity |-> handleUploadErrorArity],
     [fn |-> "uploadMultipleHandler", arity |-> 2] >>

\* the layers of the earlier app.post("/upload-multiple", ...)
uploadMultipleRouteV1 ==
  << [fn |-> "upload.arrayV1", arity |-> 3],
     [fn |-> "handleUploadErrorV1", arity |-> handleUploadErrorArityV1],
     [fn |-> "uploadMultipleHandler", arity |-> 2] >>

\* one layer called with (req, res, next) or, as error handler, (err, ...)
callLayer(fn, err, file, st, uuid, backendOk, baseUrl) ==
  CASE fn = "upload.single" -> multerSingle(file, st)
    [] fn = "handleUploadError" ->
         handleUploadError(IF err = NoErr THEN ReqAsErr ELSE err, file, st)
    [] fn = "uploadHandler" -> uploadHandler(file, st, uuid, backendOk, baseUrl)
    [] fn = "upload.array" -> multerArray(file, st)
    [] fn = "upload.arrayV1" -> multerArrayV1(file, st)
    [] fn = "handleUploadErrorV1" ->
         handleUploadErrorV1(IF err = NoErr THEN ReqAsErr ELSE err, file, st)
    [] fn = "uploadMultipleHandler" -> uploadMultipleHandler(file, st)

RECURSIVE dispatch(_, _, _, _, _, _, _, _, _)
\* Express' Route.dispatch: without a pending error a layer of length <= 3 is
\* called and one of length 4 is skipped; with a pending error only a layer
\* of length 4 is called; a throw becomes the pending error
dispatch(stack, i, err, file, st, uuid, backendOk, baseUrl, production) ==
  IF i > Len(stack) THEN finalhandler(err, st, production)
  ELSE LET layer == stack[i]
           skip == IF err = NoErr THEN layer.arity > 3 ELSE layer.arity # 4
           o == callLayer(layer.fn, err, file, st, uuid, backendOk, baseUrl)
       IN  IF skip
           THEN dispatch(stack, i + 1, err, file, st, uuid, backendOk,
                         baseUrl, production)
           ELSE IF o.t # "next" THEN o
           ELSE dispatch(stack, i + 1, o.err, o.file, st, uuid, backendOk,
                         baseUrl, production)

(***************************************************************************)
(* Upload endpoints: actions                                               *)
(***************************************************************************)
NoExchange ==
  [op |-> "none", file |-> NoFile, arg |-> <<>>, status |-> 0, error |-> "",
   body |-> NoBody, handlerRan |-> FALSE, putCalls |-> 0, before |-> {},
   via |-> "app", backendOk |-> TRUE, multerErr |-> NoErr, uuid |-> <<>>,
   listing |-> {}, files |-> <<>>, entries |-> <<>>, listOk |-> TRUE,
   removeOutcome |-> "none", again |-> FALSE, order |-> <<>>]

\* file.name.split(".")[0]: the part of a key before its first "."
idOf(name) == split(name, ".")[1]

\* the history of deleted ids after a step from bucket st to bucket st2
\* in which DELETE answered 200 for the ids in answered
deletedAfter(st, st2, answered) ==
  (deleted \cup answered) \ {idOf(o.name) : o \in st2 \ st}

\* objects an earlier deployment of the gateway left in the bucket
PreExisting ==
  { [name |-> <<"u", "1", ".", "p", "n", "g">>, buffer |-> "bytesA",
     contentType |-> ImagePng] }

\* POST /upload with one multipart part (or none)
Upload ==
  \E file \in Files \cup {NoFile}, uuid \in Uuids, backendOk \in BOOLEAN :
    \E o \in {dispatch(uploadRoute, 1, NoErr, file, store, uuid, backendOk,
                      cfg.baseUrl, cfg.production)} :
        /\ store' = o.store
        /\ last' = [NoExchange EXCEPT
                      !.op = "upload", !.file = file,
                      !.status = o.status, !.error = o.error, !.body = o.body,
                      !.handlerRan = o.handlerRan, !.putCalls = o.putCalls,
                      !.before = store, !.via = o.via, !.backendOk = backendOk,
                      !.multerErr = multerSingle(file, store).err,
                      !.uuid = uuid]
        /\ deleted' = deletedAfter(store, o.store, {})
        /\ UNCHANGED <<cfg, batch, del, authVars>>

\* GET /file/:filename
GetFile ==
  \E filename \in {o.name : o \in store} \cup {last.body.filename}
                  \cup {<<"u", "0", ".", "p", "n", "g">>} :
    LET d == download(store, filename)
    IN  /\ last' = [NoExchange EXCEPT
                      !.op = "file", !.arg = filename, !.before = store,
                      !.status = IF d.error # NoErr THEN 404 ELSE 200,
                      !.error = IF d.error # NoErr THEN "File not found" ELSE "",
                      !.body = IF d.error # NoErr THEN NoBody
                               ELSE [NoBody EXCEPT !.bytes = d.data,
                                                   !.contentType = "image/jpeg"]]
        /\ UNCHANGED <<store, cfg, batch, deleted, del, authVars>>

(***************************************************************************)
(* GET /images and DELETE /images/:id                                      *)
(***************************************************************************)
\* rows list() returns at most
ListLimit == 100

\* .list("", {search, ...}): the names of the objects whose name contains
\* search, whatever the case; data is null when the call reports an error.
\* The bucket of the model stays below ListLimit objects, so the limit
\* never cuts the answer, and no claim settled here depends on its order.
storageList(st, search, listOk) ==
  IF listOk
  THEN [error |-> NoErr, isNull |-> FALSE,
        data |-> {o.name : o \in {x \in st :
                    includes(toLowerCase(x.name), toLowerCase(search))}}]
  ELSE [error |-> StorageErr, isNull |-> TRUE, data |-> {}]

\* what .remove([name]) may do: remove the object, report an error in its
\* result and remove nothing, or reject (the request never got through)
RemoveOutcomes == {"removed", "error", "thrown"}

\* .remove([name])
storageRemove(st, name, outcome) ==
  IF outcome = "removed"
  THEN [error |-> NoErr, store |-> {o \in st : o.name # name}]
  ELSE [error |-> StorageErr, store |-> st]

\* /\.(jpe?g|png|gif|webp)$/i.test(name)
imagePattern(name) ==
  \E w \in allowedWords : endsWith(toLowerCase(name), <<".">> \o w)

\* one element of the GET /images answer
listEntry(name) ==
  [id |-> idOf(name), filename |-> name, url |-> getPublicUrl(name)]

\* GET /images
ListImages ==
  \E listOk \in BOOLEAN :
    LET l == storageList(store, <<>>, listOk)
        images == {n \in l.data : imagePattern(n)}
        base == [NoExchange EXCEPT !.op = "list", !.before = store,
                                   !.listOk = listOk]
    IN  /\ last' = IF l.error # NoErr
                   THEN [base EXCEPT !.status = 500,
                                     !.error = "Failed to load images"]
                   ELSE [base EXCEPT !.status = 200,
                                     !.listing = {listEntry(n) : n \in images}]
        /\ UNCHANGED <<store, cfg, batch, deleted, del, authVars>>

\* ids a client may ask to delete: those of stored objects, those deleted
\* before, one that was never stored and one that is a mere prefix of ids
DeleteIds(st) ==
  {idOf(o.name) : o \in st} \cup deleted \cup {<<"u", "0">>, <<"u">>}

\* DELETE /images/:id. files.find answers the first match in the order
\* the backend listed the rows: any of the matches here.
DeleteImage ==
  \E id \in DeleteIds(store), listOk \in BOOLEAN,
     removeOutcome \in RemoveOutcomes :
    LET l == storageList(store, id, listOk)
        matches == {n \in l.data : startsWith(n, id \o <<".">>)}
        base == [NoExchange EXCEPT !.op = "delete", !.arg = id,
                                   !.before = store, !.listOk = listOk,
                                   !.again = (id \in deleted)]
        failed == [base EXCEPT !.status = 500, !.error = "Failed to delete"]
    IN  /\ IF l.isNull                    \* files.find on null throws
           THEN /\ last' = failed
                /\ UNCHANGED <<store, deleted>>
           ELSE IF matches = {}
           THEN /\ last' = [base EXCEPT !.status = 404,
                                        !.error = "File not found"]
                /\ UNCHANGED <<store, deleted>>
           ELSE \E name \in matches :
                  IF removeOutcome = "thrown"
                  THEN /\ last' = [failed EXCEPT !.removeOutcome = "thrown"]
                       /\ UNCHANGED <<store, deleted>>
                  ELSE /\ store' = storageRemove(store, name,
                                                 removeOutcome).store
                       /\ last' = [base EXCEPT
                                     !.status = 200,
                                     !.body = [NoBody EXCEPT !.filename = name],
                                     !.removeOutcome = removeOutcome]
                       /\ deleted' = deleted \cup {id}
        /\ UNCHANGED <<cfg, batch, del, authVars>>

(***************************************************************************)
(* POST /upload-multiple                                                   *)
(***************************************************************************)
MaxObjects == 3    \* objects the bucket may hold when a batch is done

fPng == [originalname |-> <<"a", ".", "p", "n", "g">>, mimetype |-> ImagePng,
         size |-> FileSizeLimit, buffer |-> "bytesB"]
fPNG == [originalname |-> <<"a", ".", "P", "N", "G">>, mimetype |-> ImagePng,
         size |-> FileSizeLimit, buffer |-> "bytesA"]
fGif == [originalname |-> <<"a", ".", "b", ".", "g", "i", "f">>,
         mimetype |-> ImagePng, size |-> FileSizeLimit, buffer |-> "bytesA"]
fTxt == [originalname |-> <<"a", ".", "t", "x", "t">>, mimetype |-> TextPlain,
         size |-> FileSizeLimit, buffer |-> "bytesA"]
fBig == [fPng EXCEPT !.size = FileSizeLimit + 1]
fPngx == [fPng EXCEPT !.originalname = <<"a", ".", "p", "n", "g", "x">>]

\* the multipart bodies sent to POST /upload-multiple: none, one, two and
\* three valid files, three valid files with an invalid one in each
\* position, an oversized file, MaxCount and MaxCount + 1 valid files, and
\* a file whose extension only contains an allowed word
Batches ==
  { <<>>, <<fPng>>, <<fPng, fPNG>>, <<fPNG, fGif, fPng>>,
    <<fTxt, fPng, fPNG, fGif>>, <<fPng, fTxt, fPNG, fGif>>,
    <<fPng, fPNG, fTxt, fGif>>, <<fPng, fPNG, fGif, fTxt>>,
    <<fPng, fBig>>, <<fPngx>>,
    [i \in 1..MaxCount |-> fPng], [i \in 1..(MaxCount + 1) |-> fPng] }

\* the bodies sent to the route whose handler is reached: the same but
\* for the MaxCount valid files, whose puts the model does not follow
BatchesV1 == Batches \ {[i \in 1..MaxCount |-> fPng]}

NoBatch ==
  [phase |-> "idle", files |-> <<>>, ids |-> <<>>, done |-> <<>>,
   results |-> <<>>, order |-> <<>>, answered |-> FALSE, status |-> 0,
   error |-> "", entries |-> <<>>, responses |-> 0, before |-> {},
   baseUrl |-> FALSE]

\* the ids crypto.randomUUID() hands to the n calls of uploadToSupabase:
\* any values, or (fresh) values no object and no other call has
idChoices(n, st, fresh) ==
  {ids \in [1..n -> Uuids] :
     fresh => /\ \A i, j \in 1..n : ids[i] = ids[j] => i = j
              /\ \A i \in 1..n : \A o \in st : idOf(o.name) # ids[i]}

\* one element of the files list of the batch answer
fileEntry(baseUrl, result) ==
  [id |-> result.id, filename |-> result.filename,
   url |-> fileUrl(baseUrl, result)]

\* the array Promise.all resolves to, given each promise's value and the
\* order in which they settled, as the list the handler maps it to
promiseAllByCompletion(baseUrl, results, order) ==
  [k \in 1..Len(order) |-> fileEntry(baseUrl, results[order[k]])]

\* the array Promise.all resolves to (values by input position), as the
\* files list the handler maps it to
promiseAll(baseUrl, results, order) ==
  [k \in 1..Len(results) |-> fileEntry(baseUrl, results[k])]

\* POST /upload-multiple through a route chain, up to the handler's await
UploadMultipleOn(route, batches, fresh) ==
  \E files \in batches :
    /\ batch.phase # "running"
    /\ \E o \in {dispatch(route, 1, NoErr, files, store, <<>>, TRUE,
                          cfg.baseUrl, cfg.production)} :
         LET ex == [NoExchange EXCEPT
                      !.op = "upload-multiple", !.files = files,
                      !.status = o.status, !.error = o.error, !.via = o.via,
                      !.handlerRan = o.handlerRan, !.before = store,
                      !.multerErr = multerArray(files, store).err]
         IN  IF o.t = "resp"
             THEN /\ batch' = NoBatch
                  /\ last' = ex
             ELSE /\ Cardinality(store) + Len(o.file) <= MaxObjects
                  /\ \E ids \in idChoices(Len(o.file), store, fresh) :
                       batch' = [NoBatch EXCEPT
                                   !.phase = "running", !.files = o.file,
                                   !.ids = ids,
                                   !.done = [i \in 1..Len(o.file) |-> "pending"],
                                   !.results = [i \in 1..Len(o.file) |-> NoBody],
                                   !.before = store,
                                   !.baseUrl = cfg.baseUrl]
                  /\ last' = ex
    /\ UNCHANGED <<store, cfg, deleted, del, authVars>>

\* POST /upload-multiple
UploadMultiple == UploadMultipleOn(uploadMultipleRoute, Batches, FALSE)

\* POST /upload-multiple of the earlier variant (src/index.js:427-455)
UploadMultipleV1 == UploadMultipleOn(uploadMultipleRouteV1, BatchesV1, FALSE)

\* the same, crypto.randomUUID() never repeating an id
UploadMultipleV1Fresh == UploadMultipleOn(uploadMultipleRouteV1, BatchesV1, TRUE)

\* a put that fails makes the handler delete what its siblings stored
PutCompleteRollback ==
  \E i \in 1..Len(batch.files), backendOk \in BOOLEAN :
    /\ batch.phase = "running"
    /\ batch.done[i] = "pending"
    /\ \E up \in {uploadToSupabase(batch.files[i], store, batch.ids[i],
                                    backendOk)} :
         LET done2 == [batch.done EXCEPT
                         ![i] = IF up.thrown THEN "failed" ELSE "ok"]
             results2 == [batch.results EXCEPT ![i] = up.result]
             order2 == Append(batch.order, i)
             n == Len(batch.files)
             allDone == \A j \in 1..n : done2[j] # "pending"
             rejected == up.thrown /\ ~batch.answered
             resolved == ~batch.answered /\ \A j \in 1..n : done2[j] = "ok"
             b2 == [batch EXCEPT
                      !.done = done2, !.results = results2, !.order = order2,
                      !.phase = IF allDone THEN "done" ELSE "running"]
             b3 == IF rejected
                   THEN [b2 EXCEPT !.answered = TRUE, !.status = 500,
                           !.error = "Failed to upload images",
                           !.responses = b2.responses + 1]
                   ELSE IF resolved
                   THEN [b2 EXCEPT !.answered = TRUE, !.status = 200,
                           !.entries = promiseAll(batch.baseUrl, results2, order2),
                           !.responses = b2.responses + 1]
                   ELSE b2
             settled == IF allDone THEN NoBatch ELSE b3
         IN  /\ store' = IF rejected
                         THEN {o \in up.store :
                                 \A j \in 1..n :
                                   done2[j] = "ok" => o.name # results2[j].filename}
                         ELSE up.store
             /\ batch' = settled
             /\ last' = IF rejected \/ resolved
                        THEN [NoExchange EXCEPT
                                !.op = "upload-multiple", !.files = batch.files,
                                !.status = b3.status, !.error = b3.error,
                                !.entries = b3.entries, !.handlerRan = TRUE,
                                !.putCalls = n, !.before = batch.before,
                                !.order = order2, !.backendOk = backendOk]
                        ELSE last
             /\ deleted' = deletedAfter(store, up.store, {})
    /\ UNCHANGED <<cfg, del, authVars>>

\* one of the puts a batch issued completes: the object is stored or the
\* put fails. Promise.all rejects on the first failure (the handler
\* answers 500 at once) and resolves when the last put succeeded (the
\* handler answers 200); the other puts go on and their outcome is dropped.
PutComplete ==
  \E i \in 1..Len(batch.files), backendOk \in BOOLEAN :
    /\ batch.phase = "running"
    /\ batch.done[i] = "pending"
    /\ \E up \in {uploadToSupabase(batch.files[i], store, batch.ids[i],
                                    backendOk)} :
         LET done2 == [batch.done EXCEPT
                         ![i] = IF up.thrown THEN "failed" ELSE "ok"]
             results2 == [batch.results EXCEPT ![i] = up.result]
             order2 == Append(batch.order, i)
             n == Len(batch.files)
             allDone == \A j \in 1..n : done2[j] # "pending"
             rejected == up.thrown /\ ~batch.answered
             resolved == ~batch.answered /\ \A j \in 1..n : done2[j] = "ok"
             b2 == [batch EXCEPT
                      !.done = done2, !.results = results2, !.order = order2,
                      !.phase = IF allDone THEN "done" ELSE "running"]
             b3 == IF rejected
                   THEN [b2 EXCEPT !.answered = TRUE, !.status = 500,
                           !.error = "Failed to upload images",
                           !.responses = b2.responses + 1]
                   ELSE IF resolved
                   THEN [b2 EXCEPT !.answered = TRUE, !.status = 200,
                           !.entries = promiseAll(batch.baseUrl, results2, order2),
                           !.responses = b2.responses + 1]
                   ELSE b2
             settled == IF allDone THEN NoBatch ELSE b3
         IN  /\ store' = up.store
             /\ batch' = settled
             /\ last' = IF rejected \/ resolved
                        THEN [NoExchange EXCEPT
                                !.op = "upload-multiple", !.files = batch.files,
                                !.status = b3.status, !.error = b3.error,
                                !.entries = b3.entries, !.handlerRan = TRUE,
                                !.putCalls = n, !.before = batch.before,
                                !.order = order2, !.backendOk = backendOk]
                        ELSE last
             /\ deleted' = deletedAfter(store, up.store, {})
    /\ UNCHANGED <<cfg, del, authVars>>

(***************************************************************************)
(* Credential hasher and token service                                     *)
(***************************************************************************)
\* bcrypt.hash(password, 10) with the salt it draws: a salted one-way
\* value, never the plaintext itself
bcryptHash(password, salt) == <<"$2b$10$", salt, password>>

\* bcrypt.compare(password, hash): re-hashes with the salt inside the hash
bcryptCompare(password, hash) ==
  /\ Len(hash) = 3
  /\ hash[1] = "$2b$10$"
  /\ bcryptHash(password, hash[2]) = hash

\* expiresIn: "1h", in seconds
ExpiresIn == 3600

NoToken == [userId |-> 0, iat |-> 0, exp |-> 0, sig |-> "none"]

\* jwt.sign({ userId }, jwt_secret, { expiresIn: "1h" }) at time t
jwtSign(userId, t) ==
  [userId |-> userId, iat |-> t, exp |-> t + ExpiresIn, sig |-> "jwt_secret"]

\* jwt.verify that checks the signature but not the expiry
jwtVerifyIgnoreExpiration(token, t) == token.sig = "jwt_secret"

\* jwt.verify(token, jwt_secret) at time t: TRUE when it returns the
\* payload, FALSE when it throws (malformed, bad signature, expired)
jwtVerify(token, t) == token.sig = "jwt_secret" /\ t < token.exp

(***************************************************************************)
(* The "users" table                                                       *)
(***************************************************************************)
\* e-mail addresses are <<local part, domain>>; <<>> is the empty string
EmailA == <<"a", "x.com">>
EmailB == <<"b", "x.com">>
EmailN == <<"n", "x.com">>

NoRow == [id |-> 0]

\* .single(): the row when exactly one row matches, else data = null with
\* an error; a failed query also yields data = null
single(rows, dbOk) ==
  IF dbOk /\ Cardinality(rows) = 1
  THEN [data |-> CHOOSE r \in rows : TRUE, error |-> FALSE]
  ELSE [data |-> NoRow, error |-> TRUE]

\* .select("id, email, username, full_name, role")
gateColumns(r) ==
  [id |-> r.id, email |-> r.email, username |-> r.username,
   full_name |-> r.full_name, role |-> r.role]

\* .select("id, username, full_name, role, bio, updated_at")
profileColumns(r) ==
  [id |-> r.id, username |-> r.username, full_name |-> r.full_name,
   role |-> r.role, bio |-> r.bio]

\* .select("id, email, username, full_name, role, password")
loginColumns(r) ==
  [id |-> r.id, email |-> r.email, username |-> r.username,
   full_name |-> r.full_name, role |-> r.role, password |-> r.password]

\* .select() after .insert(): every column of the inserted row
allColumns(r) == r

\* the row /register inserts for a request body
newRow(id, body, password_hash) ==
  [id |-> id,
   username |-> IF body.username # "" THEN body.username ELSE body.email[1],
   full_name |-> IF body.full_name # "" THEN body.full_name ELSE "",
   email |-> body.email,
   role |-> IF body.role \in {"user", "admin", "moderator"}
            THEN body.role ELSE "user",
   password |-> password_hash,
   bio |-> ""]

(***************************************************************************)
(* Auth gate                                                               *)
(***************************************************************************)
NoHeader == [present |-> FALSE, scheme |-> "", token |-> NoToken]

\* the gate without its startsWith("Bearer ") test
authenticateTokenAnyScheme(header, t, table, dbOk) ==
  IF ~header.present
  THEN [status |-> 401, message |-> "No token", next |-> FALSE, user |-> NoRow]
  ELSE IF ~jwtVerify(header.token, t)
  THEN [status |-> 403, message |-> "Invalid token", next |-> FALSE,
        user |-> NoRow]
  ELSE LET q == single({r \in table : r.id = header.token.userId}, dbOk)
       IN  IF q.data = NoRow
           THEN [status |-> 403, message |-> "User not found",
                 next |-> FALSE, user |-> NoRow]
           ELSE [status |-> 0, message |-> "", next |-> TRUE,
                 user |-> gateColumns(q.data)]

\* authenticateToken(req, res, next); header.scheme = "Bearer" stands for a
\* header that starts with "Bearer ", header.token for auth.split(" ")[1]
authenticateToken(header, t, table, dbOk) ==
  IF ~header.present \/ header.scheme # "Bearer"
  THEN [status |-> 401, message |-> "No token", next |-> FALSE, user |-> NoRow]
  ELSE IF ~jwtVerify(header.token, t)
  THEN [status |-> 403, message |-> "Invalid token", next |-> FALSE,
        user |-> NoRow]
  ELSE LET q == single({r \in table : r.id = header.token.userId}, dbOk)
       IN  IF q.data = NoRow
           THEN [status |-> 403, message |-> "User not found",
                 next |-> FALSE, user |-> NoRow]
           ELSE [status |-> 0, message |-> "", next |-> TRUE,
                 user |-> gateColumns(q.data)]

(***************************************************************************)
(* Account endpoints: bounded inputs                                       *)
(***************************************************************************)
MaxSlots == 2      \* requests that can be in flight together
MaxUsers == 4      \* rows the table may grow to
MaxTokens == 2     \* tokens /login may hand out
MaxTicks == 3      \* clock advances

Slots == 1..MaxSlots
Salts == {"salt1"}

\* clock advances, in seconds: one minute, 59 minutes
Steps == {60, 59 * 60}

NoRegBody ==
  [email |-> <<>>, password |-> "", username |-> "", full_name |-> "",
   role |-> ""]

RegBodies ==
  { [email |-> EmailA, password |-> "p", username |-> "", full_name |-> "",
     role |-> "admin"],
    [email |-> EmailA, password |-> "q", username |-> "neo",
     full_name |-> "Neo", role |-> "root"],
    [email |-> EmailB, password |-> "p", username |-> "", full_name |-> "",
     role |-> ""],
    [email |-> <<>>, password |-> "p", username |-> "", full_name |-> "",
     role |-> ""],
    [email |-> EmailB, password |-> "", username |-> "", full_name |-> "",
     role |-> ""] }

LoginBodies ==
  { [email |-> EmailA, password |-> "p"], [email |-> EmailA, password |-> "q"],
    [email |-> EmailB, password |-> "p"], [email |-> EmailN, password |-> "p"],
    [email |-> <<>>, password |-> "p"], [email |-> EmailA, password |-> ""] }

\* rows present before the process starts: one registered account and one
\* row created without a password
PreUsers ==
  { [id |-> 1, username |-> "a", full_name |-> "", email |-> EmailA,
     role |-> "user", password |-> bcryptHash("p", "salt0"), bio |-> ""],
    [id |-> 2, username |-> "n", full_name |-> "", email |-> EmailN,
     role |-> "user", password |-> <<>>, bio |-> ""] }

ForgedToken == [userId |-> 1, iat |-> 0, exp |-> 1000000, sig |-> "forged"]
MalformedToken == [userId |-> 0, iat |-> 0, exp |-> 0, sig |-> "malformed"]

\* Authorization headers a client may send, given the tokens handed out
Headers(tokens) ==
  {NoHeader, [present |-> TRUE, scheme |-> "Basic", token |-> NoToken]}
  \cup {[present |-> TRUE, scheme |-> "Bearer", token |-> t] :
          t \in tokens \cup {ForgedToken, MalformedToken, NoToken}}

NoResp ==
  [op |-> "none", status |-> 0, message |-> "", user |-> NoRow,
   token |-> NoToken, cause |-> "", email |-> <<>>, password |-> "",
   header |-> NoHeader, at |-> 0, next |-> FALSE, gateStatus |-> 0,
   reqUser |-> NoRow, handlerRan |-> FALSE, dbOk |-> TRUE, dbOk2 |-> TRUE]

(***************************************************************************)
(* Account endpoints: actions                                              *)
(***************************************************************************)
\* POST /register up to its first suspension: the field check and the
\* existence read; the handler then holds the body until the insert.
\* readOutcomes: whether the existence read may fail (FALSE) or not
RegisterReadOn(s, readOutcomes) ==
  \E body \in RegBodies, dbOk \in readOutcomes :
    /\ pc[s] = "idle"
    /\ Cardinality(users) + Cardinality({x \in Slots : pc[x] = "insert"}) < MaxUsers
    /\ LET existing == single({r \in users : r.email = body.email}, dbOk).data
           answered(status, message) ==
             /\ resp' = [NoResp EXCEPT !.op = "register", !.status = status,
                           !.message = message, !.email = body.email,
                           !.password = body.password, !.at = now]
             /\ UNCHANGED <<pc, pending>>
       IN  IF body.email = <<>> \/ body.password = ""
           THEN answered(400, "Email and password required")
           ELSE IF existing # NoRow
           THEN answered(409, "Email already exists")
           ELSE /\ pc' = [pc EXCEPT ![s] = "insert"]
                /\ pending' = [pending EXCEPT ![s] = body]
                /\ UNCHANGED resp
    /\ UNCHANGED <<users, nextId, now, ticks, issued, loggedOut, uploadVars>>

\* POST /register, the datastore answering the existence read or failing
RegisterRead(s) == RegisterReadOn(s, BOOLEAN)

\* POST /register while the datastore answers every existence read
RegisterReadHealthy(s) == RegisterReadOn(s, {TRUE})

\* POST /register from the existence read on: hash, insert, respond
RegisterInsert(s) ==
  \E salt \in Salts, dbOk \in BOOLEAN :
    /\ pc[s] = "insert"
    /\ LET body == pending[s]
           password_hash == bcryptHash(body.password, salt)
           row == newRow(nextId, body, password_hash)
           base == [NoResp EXCEPT !.op = "register", !.email = body.email,
                      !.password = body.password, !.at = now]
       IN  IF dbOk
           THEN /\ users' = users \cup {row}
                /\ nextId' = nextId + 1
                /\ resp' = [base EXCEPT !.status = 201,
                              !.message = "User created",
                              !.user = allColumns(row)]
           ELSE /\ resp' = [base EXCEPT !.status = 400,
                              !.message = "insert failed"]
                /\ UNCHANGED <<users, nextId>>
    /\ pc' = [pc EXCEPT ![s] = "idle"]
    /\ pending' = [pending EXCEPT ![s] = NoRegBody]
    /\ UNCHANGED <<now, ticks, issued, loggedOut, uploadVars>>

\* /login without the bcrypt.compare step
loginNoCompare(body, table, t, dbOk) ==
  LET q == single({r \in table : r.email = body.email}, dbOk)
      out(status, message, cause, token) ==
        [status |-> status, message |-> message, cause |-> cause,
         token |-> token]
  IN  IF body.email = <<>> \/ body.password = ""
      THEN out(400, "Email and password are required", "missing_fields", NoToken)
      ELSE IF q.error \/ q.data = NoRow
      THEN out(401, "Invalid email or password", "no_account", NoToken)
      ELSE out(200, "", "ok", jwtSign(q.data.id, t))

\* the outcome of POST /login for a body at time t
login(body, table, t, dbOk) ==
  LET rows == {r \in table : r.email = body.email}
      q == single(rows, dbOk)
      user == loginColumns(q.data)
      out(status, message, cause, token) ==
        [status |-> status, message |-> message, cause |-> cause,
         token |-> token]
  IN  IF body.email = <<>> \/ body.password = ""
      THEN out(400, "Email and password are required", "missing_fields", NoToken)
      ELSE IF q.error \/ q.data = NoRow
      THEN out(401, "Invalid email or password",
               IF rows = {} THEN "no_account" ELSE "lookup_failed", NoToken)
      ELSE IF user.password = <<>>
      THEN out(500, "Password not set correctly for this user.", "no_hash",
               NoToken)
      ELSE IF ~bcryptCompare(body.password, user.password)
      THEN out(401, "Invalid email or password", "mismatch", NoToken)
      ELSE out(200, "", "ok", jwtSign(user.id, t))

\* POST /login
Login ==
  \E body \in LoginBodies, dbOk \in BOOLEAN :
    LET o == login(body, users, now, dbOk)
    IN  /\ Cardinality(issued \cup ({o.token} \ {NoToken})) <= MaxTokens
        /\ issued' = issued \cup ({o.token} \ {NoToken})
        /\ resp' = [NoResp EXCEPT !.op = "login", !.status = o.status,
                      !.message = o.message, !.cause = o.cause,
                      !.token = o.token, !.email = body.email,
                      !.password = body.password, !.at = now,
                      !.dbOk = dbOk]
        /\ UNCHANGED <<users, nextId, now, ticks, pc, pending, loggedOut, uploadVars>>

\* GET /me: the auth gate, then the profile handler
Me ==
  \E header \in Headers(issued), dbOk1 \in BOOLEAN, dbOk2 \in BOOLEAN :
    LET g == authenticateToken(header, now, users, dbOk1)
        q == single({r \in users : r.id = g.user.id}, dbOk2)
        base == [NoResp EXCEPT !.op = "me", !.header = header, !.at = now,
                   !.next = g.next, !.gateStatus = g.status,
                   !.reqUser = g.user, !.dbOk = dbOk1,
                   !.dbOk2 = (g.next => dbOk2)]     \* read only after next()
    IN  /\ resp' =
             IF ~g.next
             THEN [base EXCEPT !.status = g.status, !.message = g.message]
             ELSE IF q.data = NoRow
             THEN [base EXCEPT !.status = 404, !.message = "User not found",
                     !.handlerRan = TRUE]
             ELSE [base EXCEPT !.status = 200, !.handlerRan = TRUE,
                     !.user = profileColumns(q.data)]
        /\ UNCHANGED <<users, nextId, now, ticks, issued, pc, pending,
                       loggedOut, uploadVars>>

\* a logout that ends the session on the server by dropping the account row
LogoutRevoking ==
  \E header \in Headers(issued), dbOk \in BOOLEAN :
    LET g == authenticateToken(header, now, users, dbOk)
        base == [NoResp EXCEPT !.op = "logout", !.header = header, !.at = now,
                   !.next = g.next, !.gateStatus = g.status,
                   !.reqUser = g.user, !.dbOk = dbOk]
    IN  /\ resp' =
             IF ~g.next
             THEN [base EXCEPT !.status = g.status, !.message = g.message]
             ELSE [base EXCEPT !.status = 200, !.handlerRan = TRUE,
                     !.message = "Logged out successfully"]
        /\ loggedOut' = IF g.next THEN loggedOut \cup {header.token}
                                  ELSE loggedOut
        /\ users' = IF g.next THEN {r \in users : r.id # g.user.id} ELSE users
        /\ UNCHANGED <<nextId, now, ticks, issued, pc, pending, uploadVars>>

\* POST /logout: the auth gate, then a handler that only answers
Logout ==
  \E header \in Headers(issued), dbOk \in BOOLEAN :
    LET g == authenticateToken(header, now, users, dbOk)
        base == [NoResp EXCEPT !.op = "logout", !.header = header, !.at = now,
                   !.next = g.next, !.gateStatus = g.status,
                   !.reqUser = g.user, !.dbOk = dbOk]
    IN  /\ resp' =
             IF ~g.next
             THEN [base EXCEPT !.status = g.status, !.message = g.message]
             ELSE [base EXCEPT !.status = 200, !.handlerRan = TRUE,
                     !.message = "Logged out successfully"]
        /\ loggedOut' = IF g.next THEN loggedOut \cup {header.token}
                                  ELSE loggedOut
        /\ UNCHANGED <<users, nextId, now, ticks, issued, pc, pending, uploadVars>>

\* time passes
Tick ==
  \E d \in Steps :
    /\ ticks < MaxTicks
    /\ now' = now + d
    /\ ticks' = ticks + 1
    /\ UNCHANGED <<users, nextId, issued, pc, pending, resp, loggedOut, uploadVars>>

(***************************************************************************)
(* DELETE /images/:id as the two awaits it is made of                      *)
(***************************************************************************)
NoDelete ==
  [pc |-> "idle", id |-> <<>>, name |-> <<>>, status |-> 0, error |-> "",
   removeOutcome |-> "none"]

\* DELETE /images/:id up to its second await: the listing and files.find;
\* the handler then holds the name it found until remove answers.
\* listOutcomes: whether the listing may fail (FALSE) or not
DeleteListOn(s, listOutcomes) ==
  \E id \in DeleteIds(store), listOk \in listOutcomes :
    /\ del[s].pc = "idle"
    /\ LET l == storageList(store, id, listOk)
           matches == {n \in l.data : startsWith(n, id \o <<".">>)}
           base == [NoDelete EXCEPT !.id = id]
       IN  IF l.isNull                    \* files.find on null throws
           THEN del' = [del EXCEPT ![s] = [base EXCEPT
                          !.status = 500, !.error = "Failed to delete"]]
           ELSE IF matches = {}
           THEN del' = [del EXCEPT ![s] = [base EXCEPT
                          !.status = 404, !.error = "File not found"]]
           ELSE \E name \in matches :
                  del' = [del EXCEPT ![s] = [base EXCEPT
                            !.pc = "remove", !.name = name]]
    /\ UNCHANGED <<store, cfg, last, batch, deleted, authVars>>

\* DELETE /images/:id from its second await on: remove answers, for a name
\* that may be gone by now (the backend reports no error for that), and
\* the handler answers.  removeOutcomes: what remove may do
DeleteRemoveOn(s, removeOutcomes) ==
  \E removeOutcome \in removeOutcomes :
    /\ del[s].pc = "remove"
    /\ IF removeOutcome = "thrown"
       THEN /\ del' = [del EXCEPT ![s] = [@ EXCEPT
                         !.pc = "idle", !.status = 500,
                         !.error = "Failed to delete",
                         !.removeOutcome = removeOutcome]]
            /\ UNCHANGED <<store, deleted>>
       ELSE /\ store' = storageRemove(store, del[s].name, removeOutcome).store
            /\ del' = [del EXCEPT ![s] = [@ EXCEPT
                         !.pc = "idle", !.status = 200,
                         !.removeOutcome = removeOutcome]]
            /\ deleted' = deleted \cup {del[s].id}
    /\ UNCHANGED <<cfg, last, batch, authVars>>

\* the two halves while the backend answers every call without error
DeleteListHealthy(s) == DeleteListOn(s, {TRUE})

DeleteRemoveHealthy(s) == DeleteRemoveOn(s, {"removed"})

(***************************************************************************)
(* Specifications                                                          *)
(***************************************************************************)
UploadIdle ==
  /\ store = {}
  /\ cfg = [baseUrl |-> FALSE, production |-> FALSE]
  /\ last = NoExchange
  /\ batch = NoBatch
  /\ deleted = {}
  /\ del = [s \in Slots |-> NoDelete]

AuthIdle ==
  /\ users = {}
  /\ nextId = 3
  /\ now = 0
  /\ ticks = 0
  /\ issued = {}
  /\ pc = [s \in Slots |-> "idle"]
  /\ pending = [s \in Slots |-> NoRegBody]
  /\ resp = NoResp
  /\ loggedOut = {}

InitUpload ==
  /\ store \in SUBSET PreExisting
  /\ cfg \in [baseUrl : BOOLEAN, production : BOOLEAN]
  /\ last = NoExchange
  /\ batch = NoBatch
  /\ deleted = {}
  /\ del = [s \in Slots |-> NoDelete]
  /\ AuthIdle

\* the earlier route chain never reaches Express' default error handler,
\* so NODE_ENV plays no part in it
InitBatch ==
  /\ store \in SUBSET PreExisting
  /\ cfg \in [baseUrl : BOOLEAN, production : {FALSE}]
  /\ last = NoExchange
  /\ batch = NoBatch
  /\ deleted = {}
  /\ del = [s \in Slots |-> NoDelete]
  /\ AuthIdle

InitAuth ==
  /\ users \in SUBSET PreUsers
  /\ nextId = 3
  /\ now = 0
  /\ ticks = 0
  /\ issued = {}
  /\ pc = [s \in Slots |-> "idle"]
  /\ pending = [s \in Slots |-> NoRegBody]
  /\ resp = NoResp
  /\ loggedOut = {}
  /\ UploadIdle

Init ==
  /\ store \in SUBSET PreExisting
  /\ cfg \in [baseUrl : BOOLEAN, production : BOOLEAN]
  /\ last = NoExchange
  /\ batch = NoBatch
  /\ deleted = {}
  /\ del = [s \in Slots |-> NoDelete]
  /\ users \in SUBSET PreUsers
  /\ nextId = 3
  /\ now = 0
  /\ ticks = 0
  /\ issued = {}
  /\ pc = [s \in Slots |-> "idle"]
  /\ pending = [s \in Slots |-> NoRegBody]
  /\ resp = NoResp
  /\ loggedOut = {}

NextUpload == Upload \/ GetFile \/ UploadMultiple \/ ListImages \/ DeleteImage

\* the batch route of the earlier variant, whose handler is reached
NextBatch == UploadMultipleV1 \/ PutComplete

\* the same with ids that never repeat, with listing and deletion
NextFresh == UploadMultipleV1Fresh \/ PutComplete \/ ListImages \/ DeleteImage

NextAccounts ==
  \/ \E s \in Slots : RegisterRead(s)
  \/ \E s \in Slots : RegisterInsert(s)
  \/ Login
  \/ Me

\* concurrent registrations against a datastore whose reads succeed
NextRace ==
  \/ \E s \in Slots : RegisterReadHealthy(s)
  \/ \E s \in Slots : RegisterInsert(s)

NextAuth == Login \/ Me \/ Logout \/ Tick

\* concurrent deletions against a backend whose calls succeed
NextDeleteRace ==
  \/ \E s \in Slots : DeleteListHealthy(s)
  \/ \E s \in Slots : DeleteRemoveHealthy(s)

Next == NextUpload \/ NextBatch \/ NextDeleteRace \/ NextAccounts \/ NextAuth

SpecUpload == InitUpload /\ [][NextUpload]_vars
SpecBatch == InitBatch /\ [][NextBatch]_vars
SpecFresh == InitBatch /\ [][NextFresh]_vars
SpecDeleteRace == InitUpload /\ [][NextDeleteRace]_vars
SpecAccounts == InitAuth /\ [][NextAccounts]_vars
SpecRace == InitAuth /\ [][NextRace]_vars
SpecAuth == InitAuth /\ [][NextAuth]_vars
Spec == Init /\ [][Next]_vars

(***************************************************************************)
(* Properties                                                              *)
(***************************************************************************)
\* the extension of a name: its final dot-segment, lower-cased
extensionOf(name) == toLowerCase(pop(split(name, ".")))

\* the image content types: image/<one of the allowed words>
imageFamily(mimetype) ==
  \E w \in allowedWords : mimetype = <<"i", "m", "a", "g", "e", "/">> \o w

\* a file the validator is specified to accept
validImage(file) ==
  extensionOf(file.originalname) \in allowedWords /\ imageFamily(file.mimetype)

\* C1: no response carries the stored password: the account object of a
\* response has no password field (register's 201 body included).
C1_NoPasswordInResponse == "password" \notin DOMAIN resp.user

\* C2: the upload validator accepts a file iff its lower-cased final
\* dot-segment is exactly one of jpg, jpeg, png, gif, webp and its content
\* type is of the image family.
C2_ValidatorExact ==
  (last.op = "upload" /\ last.file # NoFile)
    => ((last.multerErr # FilterError) <=> validImage(last.file))

\* C3: a file with a disallowed extension or a mismatching content type makes
\* POST /upload fail with the 400 unsupported-type error, without a call of
\* uploadToSupabase and without a change of the stored objects.
C3_InvalidRejected400 ==
  (last.op = "upload" /\ last.file # NoFile /\ ~validImage(last.file))
    => /\ last.status = 400
       /\ last.error = "Only image files are allowed"
       /\ last.putCalls = 0
       /\ store = last.before

\* C4: a file larger than 10 MiB makes POST /upload fail with the 400
\* 'File too large' error, which differs from the unsupported-type error,
\* and no storage put precedes that response.
C4_TooLarge400 ==
  (last.op = "upload" /\ last.file # NoFile /\ last.file.size > FileSizeLimit)
    => /\ last.status = 400
       /\ last.error = "File too large. Max 10MB."
       /\ last.error # FilterError.message
       /\ last.putCalls = 0
       /\ store = last.before

\* C5: a valid image of at most 10 MiB, a working backend and a fresh key
\* make POST /upload reach the upload handler and answer 200 with
\* {id, filename, url, size, mimetype}; the stored object under the returned
\* filename holds the uploaded bytes.
C5_ValidStored ==
  (/\ last.op = "upload" /\ last.file # NoFile /\ validImage(last.file)
   /\ last.file.size <= FileSizeLimit /\ last.backendOk
   /\ \A o \in last.before : ~startsWith(o.name, last.uuid \o <<".">>))
    => /\ last.handlerRan
       /\ last.status = 200
       /\ last.body.id = last.uuid
       /\ last.body.size = last.file.size
       /\ last.body.mimetype = last.file.mimetype
       /\ last.body.url.path = last.body.filename
       /\ download(store, last.body.filename).data = last.file.buffer

\* a token /login handed out that has not expired at time t
liveToken(token, t) == token \in issued /\ t < token.iat + ExpiresIn

\* the account a token names
subjectOf(token) == {u \in users : u.id = token.userId}

\* C6: the auth gate ends in exactly one outcome: no header -> 401; header
\* not starting with "Bearer " -> 401; invalid, malformed or expired token
\* -> 403; valid token without account -> 403; valid token with account ->
\* account attached and the protected handler invoked. The handler runs in
\* no rejecting case and the gate never both responds and calls next.
C6_GateOutcomes ==
  resp.op \in {"me", "logout"} =>
    LET h == resp.header
        rejected(status) ==
          /\ resp.gateStatus = status /\ resp.status = status
          /\ ~resp.next /\ ~resp.handlerRan /\ resp.reqUser = NoRow
    IN  /\ ~h.present => rejected(401)
        /\ (h.present /\ h.scheme # "Bearer") => rejected(401)
        /\ (h.present /\ h.scheme = "Bearer" /\ ~liveToken(h.token, resp.at))
             => rejected(403)
        /\ (h.present /\ h.scheme = "Bearer" /\ liveToken(h.token, resp.at)
            /\ (subjectOf(h.token) = {} \/ ~resp.dbOk))
             => rejected(403)
        /\ (h.present /\ h.scheme = "Bearer" /\ liveToken(h.token, resp.at)
            /\ subjectOf(h.token) # {} /\ resp.dbOk)
             => /\ resp.next /\ resp.handlerRan /\ resp.gateStatus = 0
                /\ resp.reqUser.id = h.token.userId
        /\ ~(resp.gateStatus # 0 /\ resp.next)
        /\ resp.handlerRan => resp.next

\* C6 witness: a request with a live token of an existing account passed the
\* gate and the handler of /logout answered.
C6_Witness ==
  /\ resp.op = "logout" /\ resp.next /\ resp.handlerRan /\ resp.status = 200
  /\ liveToken(resp.header.token, resp.at)

\* the login failures the claim calls indistinguishable
UniformCauses == {"no_account", "no_hash", "mismatch"}

\* C7: two login attempts that fail because no account has the email, the
\* account has no usable hash, or the comparison fails, get responses with
\* the same status and message.
C7_UniformLoginFailure ==
  [][(/\ resp.op = "login" /\ resp.cause \in UniformCauses
      /\ resp'.op = "login" /\ resp'.cause \in UniformCauses)
       => (resp'.status = resp.status /\ resp'.message = resp.message)]_vars

\* C8: login hands out a token only for an existing account whose stored hash
\* is the hash of the supplied password, and the token names that account:
\* the gate attaches the account with the token's subject id and /me returns
\* that account's profile.
C8_TokenNamesAccount ==
  /\ \A u, v \in users : u.id = v.id => u = v
  /\ (resp.op = "login" /\ (resp.status = 200 \/ resp.token # NoToken))
       => /\ resp.status = 200 /\ resp.token \in issued
          /\ \E u \in users :
               /\ u.email = resp.email
               /\ Len(u.password) = 3 /\ u.password[3] = resp.password
               /\ resp.token.userId = u.id
  /\ (resp.op = "me" /\ resp.next /\ resp.header.token \in issued)
       => /\ resp.reqUser.id = resp.header.token.userId
          /\ resp.status = 200 =>
               \E u \in users :
                 /\ u.id = resp.header.token.userId
                 /\ resp.user = [id |-> u.id, username |-> u.username,
                                 full_name |-> u.full_name, role |-> u.role,
                                 bio |-> u.bio]

\* C8 witness: /me answered 200 for a token of an account that /register
\* created in this run.
C8_Witness ==
  /\ resp.op = "me" /\ resp.status = 200 /\ resp.header.token \in issued
  /\ resp.user.id >= 3

\* C9: a token issued at T is accepted by the gate's verification at every
\* check before T + 1 hour (the request passes the gate when the account
\* lookup answers) and is rejected with 403 at every check after T + 1 hour;
\* its expiry is fixed at issuance and nothing moves it.
C9_OneHourLifetime ==
  /\ \A t \in issued : t.exp = t.iat + ExpiresIn
  /\ (resp.op = "login" /\ resp.token # NoToken) => resp.token.iat = resp.at
  /\ (/\ resp.op \in {"me", "logout"} /\ resp.header.present
      /\ resp.header.scheme = "Bearer" /\ resp.header.token \in issued)
       => LET T == resp.header.token.iat
          IN  /\ resp.at < T + 3600
                   => /\ resp.message # "Invalid token"
                      /\ resp.dbOk => resp.next
              /\ resp.at > T + 3600
                   => /\ resp.status = 403 /\ resp.message = "Invalid token"
                      /\ ~resp.next

\* C9 witness: a token was presented 61 minutes after its issuance and was
\* rejected with 403.
C9_Witness ==
  /\ resp.op = "me" /\ resp.header.token \in issued
  /\ resp.at = resp.header.token.iat + 61 * 60
  /\ resp.status = 403

\* C10: the users table never holds two accounts with the same email,
\* whatever the interleaving of register requests.
C10_EmailUnique ==
  \A u, v \in users : u.email = v.email => u = v

\* a step in which POST /register answered from its field check or its
\* existence read (the request never reached the insert)
registerAnswered ==
  /\ pc' = pc
  /\ resp' # resp
  /\ resp'.op = "register"

\* C11: a registration whose email already belongs to an account is answered
\* 409, performs no insert and leaves the existing accounts unchanged; a
\* registration without email or password is answered 400 and goes no
\* further.
C11_DuplicateRejected ==
  [][/\ \A s \in Slots :
          (pc[s] = "idle" /\ pc'[s] = "insert")
            => \A u \in users : u.email # pending'[s].email
     /\ users \subseteq users'
     /\ registerAnswered
          => /\ users' = users
             /\ (resp'.email = <<>> \/ resp'.password = "")
                  => resp'.status = 400
             /\ (/\ resp'.email # <<>> /\ resp'.password # ""
                 /\ \E u \in users : u.email = resp'.email)
                  => resp'.status = 409]_vars

\* C17: POST /logout changes neither the users table nor the bucket (nor
\* the set of issued tokens), and a token for which logout answered 200 is
\* still accepted afterwards: GET /me with it before its expiry answers 200
\* whenever the account lookups answer.
C17_LogoutNoEffect ==
  [][/\ resp'.op = "logout"
          => /\ users' = users /\ nextId' = nextId
             /\ store' = store /\ issued' = issued
     /\ (/\ resp'.op = "me"
         /\ resp'.header.scheme = "Bearer"
         /\ resp'.header.token \in loggedOut
         /\ resp'.at < resp'.header.token.iat + 3600
         /\ resp'.dbOk /\ resp'.dbOk2)
          => /\ resp'.status = 200
             /\ resp'.user.id = resp'.header.token.userId]_vars

\* C17 witness: a token was logged out with 200 and, 59 minutes after its
\* issuance, GET /me with the same token answered 200.
C17_Witness ==
  /\ resp.op = "me" /\ resp.status = 200
  /\ resp.header.token \in loggedOut
  /\ resp.at = resp.header.token.iat + 59 * 60

\* C12: a batch upload of more than 10 files is answered with a 400-class
\* status, and no storage put is made for any file of the batch.
C12_TooManyFiles400 ==
  (last.op = "upload-multiple" /\ Len(last.files) > 10)
    => /\ last.status \in 400..499
       /\ last.putCalls = 0
       /\ batch.phase # "running"
       /\ store = last.before

\* C15: after DELETE /images/:id answered 200 for an id, no GET /images
\* answer has an entry with that id; a second DELETE for the id answers 404;
\* a DELETE for an id that no key "<id>.<ext>" matches answers 404 and
\* removes nothing (the backend's listing answering in both cases).
C15_DeleteThenAbsent ==
  /\ (last.op = "list" /\ last.status = 200)
       => \A e \in last.listing : e.id \notin deleted
  /\ (last.op = "delete" /\ last.again /\ last.listOk)
       => last.status = 404
  /\ (/\ last.op = "delete" /\ last.listOk
      /\ \A o \in last.before : ~startsWith(o.name, last.arg \o <<".">>))
       => /\ last.status = 404
          /\ store = last.before

\* C20: DELETE /images/:id answers 200 only when the backend removed the
\* object: after a 200 the object is gone, and when remove reports an error
\* the answer is an error status and the object is still there.
C20_DeleteOnlyIfRemoved ==
  last.op = "delete"
    => /\ last.status = 200
            => /\ last.removeOutcome = "removed"
               /\ ~exists(store, last.body.filename)
       /\ last.removeOutcome \in {"error", "thrown"}
            => /\ last.status >= 400
               /\ store = last.before

\* C13: a batch in which a file fails validation is answered with a failure
\* and stores nothing; a batch answer is a 200 listing only when every file
\* of the request was stored.
C13_AllOrNothing ==
  last.op = "upload-multiple"
    => /\ (\E i \in 1..Len(last.files) :
             ~fileFilter(last.files[i]) \/ last.files[i].size > FileSizeLimit)
            => /\ last.status >= 400
               /\ last.entries = <<>>
               /\ last.putCalls = 0
               /\ batch.phase = "idle"
               /\ store = last.before
       /\ last.status = 200
            => /\ Len(last.entries) = Len(last.files)
               /\ \A k \in 1..Len(last.files) :
                    \E o \in store :
                      /\ o.name = last.entries[k].filename
                      /\ o.buffer = last.files[k].buffer

\* C13 witness: three valid files with an invalid one in second position
\* were answered 400 and the bucket is as it was.
C13_Witness ==
  /\ last.op = "upload-multiple"
  /\ last.files = <<fPng, fTxt, fPNG, fGif>>
  /\ last.status = 400
  /\ store = last.before

\* C14: in a 200 batch answer the i-th entry of files is the i-th input
\* file (its key carries that file's extension and the object under it
\* holds that file's bytes), in whatever order the puts completed.
C14_InputOrder ==
  (last.op = "upload-multiple" /\ last.status = 200)
    => /\ Len(last.entries) = Len(last.files)
       /\ \A k \in 1..Len(last.files) :
            LET e == last.entries[k]
                f == last.files[k]
            IN  /\ pop(split(e.filename, ".")) = pop(split(f.originalname, "."))
                /\ e.id = idOf(e.filename)
                /\ \A o \in store : o.name = e.filename => o.buffer = f.buffer
                /\ exists(store, e.filename)

\* C14 witness: a batch of three was answered 200 after its puts completed
\* in the order third, first, second.
C14_Witness ==
  /\ last.op = "upload-multiple" /\ last.status = 200
  /\ last.files = <<fPNG, fGif, fPng>>
  /\ last.order = <<3, 1, 2>>

\* the put of the i-th file of the batch in flight completes in this step
completing(i) ==
  /\ batch.phase = "running"
  /\ batch' # batch
  /\ batch.done[i] = "pending"
  /\ batch'.phase = "running" => batch'.done[i] # "pending"

\* the key uploadToSupabase gave the i-th file of the batch in flight
keyOf(i) ==
  batch.ids[i] \o <<".">> \o pop(split(batch.files[i].originalname, "."))

\* C16: a put never overwrites: when the generated key already exists the
\* put fails, the bucket stays as it was and the batch is answered with the
\* upload error (unless it was answered before); no step changes the bytes
\* or the content type of an object that stays in the bucket.
C16_NeverOverwrites ==
  [][/\ \A o \in store : \A q \in store' : q.name = o.name => q = o
     /\ \A i \in 1..Len(batch.files) :
          (completing(i) /\ exists(store, keyOf(i)))
            => /\ store' = store
               /\ ~batch.answered
                    => /\ last'.op = "upload-multiple"
                       /\ last'.status = 500
                       /\ last'.error = "Failed to upload images"
                       /\ last'.entries = <<>>]_vars

\* C16 witness: the backend was answering, the put of a.png under id u1 met
\* the object u1.png already stored, and the batch was answered 500 with
\* that object still holding its bytes.
C16_Witness ==
  /\ last.op = "upload-multiple" /\ last.status = 500
  /\ last.backendOk
  /\ last.files = <<fPng>>
  /\ PreExisting \subseteq store

\* C19: when a put of a batch fails, the other puts are neither cancelled
\* nor repeated (every step completes exactly one pending put and a batch
\* is over only when none is pending), the batch is answered once, with 500
\* and no file entries, and no step of the batch removes an object (what the
\* siblings stored stays).
C19_SiblingsContinue ==
  [][(batch.phase = "running" /\ batch' # batch)
       => /\ store \subseteq store'
          /\ \E i \in 1..Len(batch.files) :
               /\ completing(i)
               /\ \A j \in 1..Len(batch.files) :
                    j # i => /\ batch.done[j] # "pending"
                                \/ (batch'.phase = "running"
                                    /\ batch'.done[j] = "pending")
                             /\ batch'.phase = "running"
                                  => batch'.done[j] = batch.done[j]
          /\ (store' = store /\ ~batch.answered)
               => /\ last'.op = "upload-multiple"
                  /\ last'.status = 500
                  /\ last'.entries = <<>>
          /\ batch.answered => last' = last]_vars

\* C19 witness: the first put to complete failed and the batch was answered
\* 500; its two siblings completed afterwards and their objects are in the
\* bucket.
C19_Witness ==
  /\ last.op = "upload-multiple" /\ last.status = 500
  /\ Len(last.files) = 3 /\ Len(last.order) = 1
  /\ batch.phase = "idle"
  /\ Cardinality(store \ last.before) = 2

\* C18: every key in the bucket is "<id>.<ext>" with no "." in the id or in
\* the extension; a 200 batch answer names for its i-th file the key made of
\* its id, "." and the original name's last dot-segment as it was sent; the
\* id GET /images reports for a key is the id its upload returned; and a
\* DELETE by that id resolves to that key and no other.
C18_KeyForm ==
  /\ \A o \in store : Len(split(o.name, ".")) = 2
  /\ (last.op = "upload-multiple" /\ last.status = 200)
       => \A k \in 1..Len(last.files) :
            LET e == last.entries[k]
            IN  /\ ~includes(e.id, <<".">>)
                /\ e.filename
                     = e.id \o <<".">>
                         \o pop(split(last.files[k].originalname, "."))
                /\ listEntry(e.filename).id = e.id
  /\ (last.op = "list" /\ last.status = 200)
       => /\ \A e \in last.listing :
               /\ exists(last.before, e.filename)
               /\ startsWith(e.filename, e.id \o <<".">>)
               /\ ~includes(e.id, <<".">>)
          /\ \A o \in last.before :
               imagePattern(o.name)
                 => \E e \in last.listing : e.filename = o.name
  /\ (last.op = "delete" /\ last.status = 200)
       => /\ exists(last.before, last.body.filename)
          /\ idOf(last.body.filename) = last.arg
          /\ \A o \in last.before :
               idOf(o.name) = last.arg => o.name = last.body.filename

\* C18 witness: a.PNG was uploaded under id u2 as key u2.PNG, and DELETE
\* /images/u2 resolved to that key and removed it.
C18_Witness ==
  /\ last.op = "delete" /\ last.status = 200
  /\ last.arg = <<"u", "2">>
  /\ last.body.filename = <<"u", "2", ".", "P", "N", "G">>
  /\ last.removeOutcome = "removed"
  /\ ~exists(store, last.body.filename)

\* C21: of two DELETE /images/:id requests for the id of one stored object
\* that run concurrently, at most one answers 200 (the other answers 404):
\* no two requests report the same object deleted.
C21_DeletedOnce ==
  \A s, t \in Slots :
    (s # t /\ del[s].status = 200 /\ del[t].status = 200)
      => del[s].name # del[t].name

\* C22: every object in the bucket is listable: a GET /images answer has
\* an entry for each object stored at the time (the bucket holding fewer
\* than 100 objects), so whatever an upload persisted is listed until it
\* is deleted.
C22_StoredIsListed ==
  (last.op = "list" /\ last.status = 200 /\ Cardinality(last.before) <= 100)
    => \A o \in last.before : \E e \in last.listing : e.filename = o.name

====
